---- MODULE Spec2Model ----
(***************************************************************************)
(* trace-logger: the background batching exporter (exporter.py), the       *)
(* capture lifecycle with its correlation store (logger.py, context.py),   *)
(* and the pure functions redact_payload (utils.py), TraceRecord.to_payload *)
(* (models.py) and the construction of TraceLoggerConfig (config.py).      *)
(*                                                                         *)
(* Time is counted in ticks of 0.1 s.  The worker only ever compares       *)
(* (now - last_flush) with flush_interval, so the model keeps that         *)
(* difference, saturated at flush_interval, instead of the two clocks.     *)
(***************************************************************************)
EXTENDS Integers, Sequences, FiniteSets

\* ------------------------------------------------------------------ bounds
MaxRecords == 3        \* records enqueued over one run
MaxBatch == 2          \* largest configured batch_size
MaxInterval == 2       \* largest configured flush_interval, in ticks
MaxDepth == 2          \* capture_request scopes open at once
MaxIds == 2            \* uuid4 ids generated over one run
MaxEmit == 2           \* records built by log_event over one run
MaxNodes == 4          \* values (scalars, lists, mappings) in one payload

\* ------------------------------------------------------- program constants
MinWait == 1           \* the 0.1 s floor of the queue read timeout
ErrorThreshold == 400  \* status codes from here on are error records
DefaultErrorStatus == 500
DefaultOkStatus == 200

None == "None"
NoneOpt == <<>>        \* an absent Optional[int] / Optional[dict]
Some(x) == <<x>>
Statuses == {399, 400}   \* the status of an enqueued record, either side of 400

\* the outcome of an operation: its return value and the exception it raised
Outcome(ret, exc) == [ret |-> ret, exc |-> exc]
NoResult == Outcome(None, None)
NoArgs == <<>>
\* the outcome of a call of the function under study
Returned(op, ret) == [ret |-> ret, exc |-> None, op |-> op]
Raised(op, exc) == [ret |-> None, exc |-> exc, op |-> op]
\* the outcome of a call on the correlation store, with the call and the
\* trace_id argument the caller passed
Called(op, trace_id, ret) ==
    [ret |-> ret, exc |-> None, op |-> op, trace_id |-> trace_id]
IsCall(r, op) == "op" \in DOMAIN r /\ r.op = op

VARIABLES
    batch_size,        \* config.batch_size
    flush_interval,    \* config.flush_interval, in ticks
    enable_console_fallback,   \* config.enable_console_fallback
    queue,             \* LogExporter._queue
    stop_event,        \* LogExporter._stop_event
    pc,                \* the worker's position in run()
    buffer,            \* run(): buffer
    elapsed,           \* run(): time.time() - last_flush, saturated
    remaining,         \* what is left of the timeout of the pending queue.get
    calls,             \* the transport calls made so far, in order
    console,           \* the records printed by the console fallback
    nrec,              \* TraceRecord objects created so far
    late,              \* flush_interval has elapsed since some last_flush
    trace_id_var,      \* context.py: _trace_id_var of the execution unit
    stack,             \* the open capture_request scopes, innermost last
    result,            \* what the caller saw of the last operation
    nuuid,             \* uuid4 ids generated so far
    args               \* the arguments of the function under study

exporterVars == <<queue, stop_event, pc, buffer, elapsed, remaining, calls,
                  console, nrec, late>>
configVars == <<batch_size, flush_interval, enable_console_fallback>>
captureVars == <<trace_id_var, stack, result, nuuid>>
vars == <<configVars, exporterVars, captureVars, args>>

Min(a, b) == IF a <= b THEN a ELSE b
Max(a, b) == IF a >= b THEN a ELSE b

\* models.py: a TraceRecord; id is the object's identity
TraceRecord(id, trace_id, status_code, error) ==
    [id |-> id, trace_id |-> trace_id, status_code |-> status_code, error |-> error]

\* faulty variant: the threshold itself is not an error status
error_records_above(records) ==
    SelectSeq(records, LAMBDA r : r.status_code > ErrorThreshold)

\* exporter.py:51
error_records(records) == SelectSeq(records, LAMBDA r : r.status_code >= ErrorThreshold)

\* faulty variant: a full buffer waits for one record more
should_flush_above ==
    \/ Len(buffer) > batch_size
    \/ (buffer # <<>> /\ elapsed >= flush_interval)
    \/ (stop_event /\ buffer # <<>>)

\* faulty variant: a pending stop flushes whatever the buffer holds, even nothing
should_flush_on_stop ==
    \/ Len(buffer) >= batch_size
    \/ (buffer # <<>> /\ elapsed >= flush_interval)
    \/ stop_event

\* exporter.py:35-39
should_flush ==
    \/ Len(buffer) >= batch_size
    \/ (buffer # <<>> /\ elapsed >= flush_interval)
    \/ (stop_event /\ buffer # <<>>)

Init ==
    /\ batch_size \in 1..MaxBatch
    /\ flush_interval \in 1..MaxInterval
    /\ enable_console_fallback \in BOOLEAN
    /\ queue = <<>>
    /\ stop_event = FALSE
    /\ pc = "start"
    /\ buffer = <<>>
    /\ elapsed = 0
    /\ remaining = 0
    /\ calls = <<>>
    /\ console = <<>>
    /\ nrec = 0
    /\ late = FALSE
    /\ trace_id_var = None
    /\ stack = <<>>
    /\ result = NoResult
    /\ nuuid = 0
    /\ args = NoArgs

\* faulty variant: a queue of bounded size, whose put waits for room
enqueue_blocking(status) ==
    /\ nrec < MaxRecords
    /\ Len(queue) < batch_size
    /\ pc \notin {"flush", "send_errors"}
    /\ nrec' = nrec + 1
    /\ queue' = Append(queue, TraceRecord(nrec + 1, "a", status, None))
    /\ UNCHANGED <<args, configVars, captureVars, stop_event, pc, buffer, elapsed, remaining, calls,
                   console, late>>

\* exporter.py:20-21, called with a freshly built record
enqueue(status) ==
    /\ nrec < MaxRecords
    /\ nrec' = nrec + 1
    /\ queue' = Append(queue, TraceRecord(nrec + 1, "a", status, None))
    /\ UNCHANGED <<args, configVars, captureVars, stop_event, pc, buffer, elapsed, remaining, calls,
                   console, late>>

\* exporter.py:46-47
stop ==
    /\ stop_event' = TRUE
    /\ UNCHANGED <<args, configVars, captureVars, queue, pc, buffer, elapsed, remaining, calls,
                   console, nrec, late>>

\* exporter.py:24-25
run_start ==
    /\ pc = "start"
    /\ buffer' = <<>>
    /\ elapsed' = 0
    /\ pc' = "while"
    /\ UNCHANGED <<args, configVars, captureVars, queue, stop_event, remaining, calls, console, nrec,
                   late>>

\* faulty variant: the loop ends as soon as the stop is requested
run_while_until_stop ==
    /\ pc = "while"
    /\ IF ~stop_event
       THEN /\ pc' = "get"
            /\ remaining' = Max(flush_interval - elapsed, MinWait)
       ELSE /\ pc' = "done"
            /\ UNCHANGED remaining
    /\ UNCHANGED <<args, configVars, captureVars, queue, stop_event, buffer, elapsed, calls, console,
                   nrec, late>>

\* exporter.py:27-28
run_while ==
    /\ pc = "while"
    /\ IF ~stop_event \/ queue # <<>>
       THEN /\ pc' = "get"
            /\ remaining' = Max(flush_interval - elapsed, MinWait)
       ELSE /\ pc' = "done"
            /\ UNCHANGED remaining
    /\ UNCHANGED <<args, configVars, captureVars, queue, stop_event, buffer, elapsed, calls, console,
                   nrec, late>>

\* faulty variant: the record taken goes to the front of the buffer
run_get_front ==
    /\ pc = "get"
    /\ queue # <<>>
    /\ buffer' = <<Head(queue)>> \o buffer
    /\ queue' = Tail(queue)
    /\ pc' = "check"
    /\ UNCHANGED <<args, configVars, captureVars, stop_event, elapsed, remaining, calls, console,
                   nrec, late>>

\* exporter.py:29-31
run_get ==
    /\ pc = "get"
    /\ queue # <<>>
    /\ buffer' = Append(buffer, Head(queue))
    /\ queue' = Tail(queue)
    /\ pc' = "check"
    /\ UNCHANGED <<args, configVars, captureVars, stop_event, elapsed, remaining, calls, console,
                   nrec, late>>

\* exporter.py:32-33
run_get_empty ==
    /\ pc = "get"
    /\ queue = <<>>
    /\ remaining = 0
    /\ pc' = "check"
    /\ UNCHANGED <<args, configVars, captureVars, queue, stop_event, buffer, elapsed, remaining,
                   calls, console, nrec, late>>

\* exporter.py:35-41
run_should_flush ==
    /\ pc = "check"
    /\ pc' = IF should_flush THEN "flush" ELSE "while"
    /\ UNCHANGED <<args, configVars, captureVars, queue, stop_event, buffer, elapsed, remaining,
                   calls, console, nrec, late>>

\* faulty variant: the fallback prints whatever the configuration says
flush_except_always_prints ==
    /\ console' = console \o buffer
    /\ pc' = "reset"

\* exporter.py:69-73
flush_except ==
    /\ console' = IF enable_console_fallback THEN console \o buffer ELSE console
    /\ pc' = "reset"

\* exporter.py:49-59
flush_send_logs ==
    /\ pc = "flush"
    /\ \E ok \in BOOLEAN :
        /\ calls' = Append(calls, [op |-> "send_logs", records |-> buffer, ok |-> ok])
        /\ IF ok
           THEN /\ pc' = IF error_records(buffer) # <<>> THEN "send_errors" ELSE "reset"
                /\ UNCHANGED console
           ELSE flush_except
    /\ UNCHANGED <<args, configVars, captureVars, queue, stop_event, buffer, elapsed, remaining, nrec,
                   late>>

\* exporter.py:62-67
flush_send_error_logs ==
    /\ pc = "send_errors"
    /\ \E ok \in BOOLEAN :
        /\ calls' = Append(calls, [op |-> "send_error_logs",
                                   records |-> error_records(buffer), ok |-> ok])
        /\ IF ok
           THEN /\ pc' = "reset"
                /\ UNCHANGED console
           ELSE flush_except
    /\ UNCHANGED <<args, configVars, captureVars, queue, stop_event, buffer, elapsed, remaining, nrec,
                   late>>

\* faulty variant: the records of a failed flush stay buffered for a retry
run_reset_keep_failed ==
    /\ pc = "reset"
    /\ buffer' = IF calls[Len(calls)].ok THEN <<>> ELSE buffer
    /\ elapsed' = 0
    /\ pc' = "while"
    /\ UNCHANGED <<args, configVars, captureVars, queue, stop_event, remaining, calls,
                   console, nrec, late>>

\* exporter.py:43-44
run_reset ==
    /\ pc = "reset"
    /\ buffer' = <<>>
    /\ elapsed' = 0
    /\ pc' = "while"
    /\ UNCHANGED <<args, configVars, captureVars, queue, stop_event, remaining, calls, console, nrec,
                   late>>

\* 0.1 s pass
Tick ==
    /\ elapsed' = Min(elapsed + 1, flush_interval)
    /\ remaining' = Max(remaining - 1, 0)
    /\ late' = (late \/ elapsed' >= flush_interval)
    /\ UNCHANGED <<args, configVars, captureVars, queue, stop_event, pc, buffer, calls, console, nrec>>

Worker ==
    \/ run_start
    \/ run_while
    \/ run_get
    \/ run_get_empty
    \/ run_should_flush
    \/ flush_send_logs
    \/ flush_send_error_logs
    \/ run_reset

Next ==
    \/ \E status \in Statuses : enqueue(status)
    \/ stop
    \/ run_start
    \/ run_while
    \/ run_get
    \/ run_get_empty
    \/ run_should_flush
    \/ flush_send_logs
    \/ flush_send_error_logs
    \/ run_reset
    \/ Tick

Spec == Init /\ [][Next]_vars

\* the worker runs whenever it can, and time passes
FairSpec == Init /\ [][Next]_vars /\ WF_vars(Worker) /\ WF_vars(Tick)

\* ------------------------------------------------------- exporter claims
Last(s) == s[Len(s)]
Ids(records) == {records[k].id : k \in 1..Len(records)}
IdSeq(records) == [k \in 1..Len(records) |-> records[k].id]
InQueue(id) == id \in Ids(queue)
InBuffer(id) == id \in Ids(buffer)
PrimaryCalls == SelectSeq(calls, LAMBDA c : c.op = "send_logs")
Sent(id) == \E k \in 1..Len(calls) : calls[k].op = "send_logs" /\ id \in Ids(calls[k].records)
StatusAtLeast400(records) == SelectSeq(records, LAMBDA r : r.status_code >= 400)

\* C1: the worker never exits with a non-empty buffer: when it has exited,
\* every record it took from the queue has been passed to a primary send.
C1_NoExitWithBuffer ==
    pc = "done" =>
        /\ buffer = <<>>
        /\ \A id \in 1..nrec : InQueue(id) \/ Sent(id)

\* C2: with batch_size n, once exactly n records are enqueued, no stop is
\* requested and flush_interval has not elapsed, there is at most one flush,
\* it carries exactly the n records, and the worker does not go back to
\* waiting on the emptied queue without having made it.
C2_ExactlyOneFullBatch ==
    (~stop_event /\ ~late /\ nrec = batch_size) =>
        /\ Len(PrimaryCalls) <= 1
        /\ Len(PrimaryCalls) = 1 =>
               IdSeq(PrimaryCalls[1].records) = [k \in 1..batch_size |-> k]
        /\ (queue = <<>> /\ pc \in {"while", "get"}) => Len(PrimaryCalls) = 1

C2_Witness ==
    /\ ~stop_event /\ ~late /\ nrec = batch_size /\ batch_size >= 2
    /\ queue = <<>> /\ pc = "get"
    /\ Len(PrimaryCalls) = 1
    /\ Len(PrimaryCalls[1].records) = batch_size

\* C3: a record that sits in a buffer of fewer than batch_size records when
\* flush_interval has elapsed, with the worker running and no stop requested,
\* is eventually passed to a primary send.
C3_OverdueBufferFlushed ==
    \A id \in 1..MaxRecords :
        (pc # "done" /\ ~stop_event /\ InBuffer(id) /\ Len(buffer) < batch_size
         /\ elapsed >= flush_interval) ~> Sent(id)

\* whether the flush that made call i is over
FlushOver(i) == i < Len(calls) \/ pc # "send_errors"
\* whether call i is a primary send that the secondary send of its errors follows
FollowedByErrors(i) ==
    /\ i < Len(calls)
    /\ calls[i + 1].op = "send_error_logs"
    /\ calls[i + 1].records = StatusAtLeast400(calls[i].records)
\* every secondary send follows the primary send of the same flush
SecondaryHasPrimary ==
    \A i \in 1..Len(calls) :
        calls[i].op = "send_error_logs" =>
            i > 1 /\ calls[i - 1].op = "send_logs" /\ FollowedByErrors(i - 1)
\* the flush in progress or just made has sent the whole buffer to the primary
BufferSentToPrimary ==
    pc \in {"send_errors", "reset"} => Last(PrimaryCalls).records = buffer

\* C4, as claimed: every flush sends the whole buffer to the primary operation
\* and, whatever the outcome of that send, the secondary operation is invoked
\* exactly when a record has status >= 400, with exactly those records.
C4_SecondaryWhateverPrimary ==
    /\ BufferSentToPrimary
    /\ SecondaryHasPrimary
    /\ \A i \in 1..Len(calls) :
        (calls[i].op = "send_logs" /\ FlushOver(i)) =>
            (FollowedByErrors(i) <=> StatusAtLeast400(calls[i].records) # <<>>)

\* C4, amended: every flush sends the whole buffer to the primary operation;
\* the secondary operation is invoked exactly when that send succeeded and a
\* record has status >= 400, with exactly the records of status >= 400.
C4_SecondaryAfterPrimarySuccess ==
    /\ BufferSentToPrimary
    /\ SecondaryHasPrimary
    /\ \A i \in 1..Len(calls) :
        (calls[i].op = "send_logs" /\ FlushOver(i)) =>
            (FollowedByErrors(i) <=>
                (calls[i].ok /\ StatusAtLeast400(calls[i].records) # <<>>))

C4_Witness ==
    /\ pc = "reset"
    /\ \E i \in 1..Len(calls) :
        /\ calls[i].op = "send_logs" /\ calls[i].ok
        /\ Len(calls[i].records) = 2
        /\ Len(StatusAtLeast400(calls[i].records)) = 1
        /\ FollowedByErrors(i)
    /\ Last(calls).op = "send_logs" /\ ~Last(calls).ok
    /\ StatusAtLeast400(Last(calls).records) # <<>>

\* C5: a failed send prints every record of the flush when the console
\* fallback is enabled and nothing when it is disabled; the worker goes on to
\* the next loop turn, and it only ever exits after a stop request.
C5_FailurePolicy ==
    [][ /\ (Len(calls') > Len(calls) /\ ~Last(calls').ok) =>
              /\ console' = IF enable_console_fallback THEN console \o buffer ELSE console
              /\ pc' = "reset"
        /\ (Len(calls') > Len(calls) /\ Last(calls').ok) => console' = console
        /\ pc' = "done" => stop_event ]_vars

C5_Witness ==
    /\ enable_console_fallback
    /\ \E i, j \in 1..Len(calls) :
        /\ i < j
        /\ ~calls[i].ok
        /\ calls[j].op = "send_logs"
        /\ Ids(calls[j].records) \cap Ids(calls[i].records) = {}
        /\ Ids(calls[i].records) \subseteq Ids(console)

\* C6: a flush attempt, successful or failed, ends with the buffer emptied and
\* last_flush reset; a record that was passed to a primary send is never in
\* the queue or in a later buffer again, and is in one primary send only.
SentOnce ==
    /\ \A i, j \in 1..Len(calls) :
          (i < j /\ calls[i].op = "send_logs" /\ calls[j].op = "send_logs")
              => Ids(calls[i].records) \cap Ids(calls[j].records) = {}
    /\ \A i \in 1..Len(calls) :
          Cardinality(Ids(calls[i].records)) = Len(calls[i].records)
NotPutBack ==
    \A id \in 1..nrec :
        Sent(id) => /\ ~InQueue(id)
                    /\ InBuffer(id) => pc \in {"send_errors", "reset"}
C6_NoRetry ==
    /\ [](SentOnce /\ NotPutBack)
    /\ [][ /\ (pc \in {"flush", "send_errors"} /\ pc' \notin {"flush", "send_errors"})
                  => pc' = "reset"
           /\ (pc = "reset" /\ pc' # "reset")
                  => (buffer' = <<>> /\ elapsed' = 0 /\ queue' = queue) ]_vars

C6_Witness ==
    /\ \E i \in 1..Len(calls) : calls[i].op = "send_logs" /\ ~calls[i].ok
    /\ pc = "get" /\ buffer = <<>> /\ queue = <<>> /\ nrec >= 2
    /\ Len(PrimaryCalls) >= 2

\* C14: once stop() has been called the worker leaves its loop only with the
\* queue empty, and with no more records than MaxRecords enqueued it does
\* leave it; every record that is in the queue while the stop is pending and
\* the worker has not exited is passed to the primary send, and no send is
\* made after the exit.
C14_DrainAndExit ==
    /\ [][ /\ (pc' = "done" /\ pc # "done") => (stop_event /\ queue = <<>>)
           /\ pc = "done" => (pc' = "done" /\ calls' = calls) ]_vars
    /\ stop_event ~> (pc = "done")
    /\ \A id \in 1..MaxRecords :
          (stop_event /\ pc # "done" /\ InQueue(id)) ~> Sent(id)

\* the worker has exited after a stop that found two records in the queue
\* behind the one it was flushing
C14_Witness ==
    /\ pc = "done"
    /\ nrec = 3
    /\ \A id \in 1..3 : Sent(id)
    /\ Len(PrimaryCalls) = 3

\* C15: whatever the worker is doing and however long the queue is, enqueue
\* can be done (up to the MaxRecords records of a run) and is one step that
\* appends the record and touches nothing of the worker; a transport send,
\* failed or not, changes neither the queue nor anything a producer sees.
C15_ProducersNeverBlock ==
    /\ [](nrec < MaxRecords => \A status \in Statuses : ENABLED enqueue(status))
    /\ [][ /\ nrec' # nrec =>
                 /\ Len(queue') = Len(queue) + 1
                 /\ SubSeq(queue', 1, Len(queue)) = queue
                 /\ UNCHANGED <<pc, buffer, calls, console, stop_event>>
           /\ calls' # calls => UNCHANGED <<queue, nrec, captureVars>> ]_vars

\* a record was enqueued after the worker had exited, which it did after a
\* failed send: the loop is only left with the queue empty
C15_Witness ==
    /\ pc = "done"
    /\ queue # <<>>
    /\ calls # <<>>
    /\ ~Last(calls).ok

\* C19: the buffer never holds more than batch_size records, and every
\* batch passed to the primary send holds at least one record and at most
\* batch_size.
C19_BatchSize ==
    /\ Len(buffer) <= batch_size
    /\ \A i \in 1..Len(PrimaryCalls) :
          /\ Len(PrimaryCalls[i].records) >= 1
          /\ Len(PrimaryCalls[i].records) <= batch_size

\* a full batch of two and a batch of one have been sent
C19_Witness ==
    /\ batch_size = 2
    /\ Len(PrimaryCalls) = 2
    /\ Len(PrimaryCalls[1].records) = 2
    /\ Len(PrimaryCalls[2].records) = 1

\* the batches of the calls, one after the other
RECURSIVE Concat(_)
Concat(batches) ==
    IF batches = <<>> THEN <<>>
    ELSE Head(batches).records \o Concat(Tail(batches))

\* whether the records of sub are records of batch, in the order of batch
RECURSIVE InOrder(_, _)
InOrder(sub, batch) ==
    IF sub = <<>> THEN TRUE
    ELSE IF batch = <<>> THEN FALSE
    ELSE IF Head(sub) = Head(batch) THEN InOrder(Tail(sub), Tail(batch))
    ELSE InOrder(sub, Tail(batch))

\* C20: the primary batches, one after the other in the order of the
\* flushes, are the first records enqueued, in the order they were enqueued
\* (records are numbered as they are enqueued); the records of a secondary
\* batch are records of the primary batch of the same flush, in its order.
C20_Fifo ==
    /\ Len(Concat(PrimaryCalls)) <= nrec
    /\ IdSeq(Concat(PrimaryCalls)) = [k \in 1..Len(Concat(PrimaryCalls)) |-> k]
    /\ \A i \in 1..Len(calls) :
          calls[i].op = "send_error_logs" =>
              /\ i > 1
              /\ calls[i - 1].op = "send_logs"
              /\ InOrder(calls[i].records, calls[i - 1].records)

\* two flushes have sent the three records, the first with a secondary
\* batch of two
C20_Witness ==
    /\ Len(PrimaryCalls) = 2
    /\ Len(Concat(PrimaryCalls)) = 3
    /\ Len(calls) >= 3
    /\ calls[2].op = "send_error_logs"
    /\ Len(calls[2].records) = 2

\* ---------------------------------------------------------------- capture
\* Payloads, metadata, timestamps and durations are left out of the records:
\* no operation below reads them back.

SuppliedIds == {None, "", "a"}        \* the trace_id argument of a call
StatusCodes == {0, 404}                \* the status_code argument of set_response
Exceptions == {"ValueError"}   \* subclasses of Exception
BaseOnly == {"CancelledError"}         \* BaseException, not Exception
Raisable == Exceptions \cup BaseOnly
LogStatuses == {200, 500}              \* the status_code argument of log_event
LogErrors == {None, "ValueError"}      \* the error argument of log_event
UuidTable == <<"u1", "u2", "u3", "u4">>

\* Python truthiness of an Optional[str]
Truthy(x) == x # None /\ x # ""

\* logger.py:44, the n-th uuid4
Uuid(n) == UuidTable[n]

\* faulty variant: an id that is already active wins over the supplied one
EnsureCurrent_existing_first(trace_id, current, n) ==
    IF Truthy(current) THEN current
    ELSE IF Truthy(trace_id) THEN trace_id
    ELSE Uuid(n + 1)

\* logger.py:42-44, the id ensure_trace_id settles on
EnsureCurrent(trace_id, current, n) ==
    IF Truthy(trace_id) THEN trace_id
    ELSE IF Truthy(current) THEN current
    ELSE Uuid(n + 1)

\* logger.py:43, whether ensure_trace_id generates an id
EnsureGenerates(trace_id, current) == ~Truthy(trace_id) /\ ~Truthy(current)

\* logger.py:17-21; the metadata dictionary is not kept
TraceCapture == [status_code |-> NoneOpt, error |-> None]

\* logger.py:128
FinalStatus(capture) ==
    IF capture.status_code # NoneOpt /\ capture.status_code[1] # 0
    THEN capture.status_code[1]
    ELSE IF capture.error # None THEN DefaultErrorStatus ELSE DefaultOkStatus

\* logger.py:51-101: ensure_trace_id, build the record, enqueue it
log_event(trace_id, status_code, error) ==
    /\ trace_id_var' = EnsureCurrent(trace_id, trace_id_var, nuuid)
    /\ nuuid' = IF EnsureGenerates(trace_id, trace_id_var) THEN nuuid + 1 ELSE nuuid
    /\ nrec' = nrec + 1
    /\ queue' = Append(queue, TraceRecord(nrec + 1, EnsureCurrent(trace_id, trace_id_var, nuuid),
                                          status_code, error))

\* faulty variant: the record takes the id that is active at close time
capture_request_finally_active_id(frame, capture) ==
    log_event(trace_id_var, FinalStatus(capture), capture.error)

\* logger.py:126-143, the finally block of capture_request
capture_request_finally(frame, capture) ==
    log_event(frame.trace_id, FinalStatus(capture), capture.error)

\* room left for the records of the scopes that are still open
CanEmit == nrec + Len(stack) < MaxEmit
CanGenerate(trace_id) == EnsureGenerates(trace_id, trace_id_var) => nuuid < MaxIds

\* logger.py:41-46
ensure_trace_id(trace_id) ==
    /\ CanGenerate(trace_id)
    /\ trace_id_var' = EnsureCurrent(trace_id, trace_id_var, nuuid)
    /\ nuuid' = IF EnsureGenerates(trace_id, trace_id_var) THEN nuuid + 1 ELSE nuuid
    /\ result' = Called("ensure_trace_id", trace_id,
                         EnsureCurrent(trace_id, trace_id_var, nuuid))
    /\ UNCHANGED <<args, configVars, exporterVars, stack>>

\* faulty variant: the active id survives the call
clear_trace_keeps_id ==
    /\ trace_id_var' = trace_id_var
    /\ result' = Called("clear_trace", None, None)
    /\ UNCHANGED <<args, configVars, exporterVars, stack, nuuid>>

\* logger.py:48-49, context.py:15-16
clear_trace ==
    /\ trace_id_var' = None
    /\ result' = Called("clear_trace", None, None)
    /\ UNCHANGED <<args, configVars, exporterVars, stack, nuuid>>

\* logger.py:51-101, called directly
call_log_event(trace_id, status_code, error) ==
    /\ CanEmit
    /\ CanGenerate(trace_id)
    /\ log_event(trace_id, status_code, error)
    /\ result' = Outcome(EnsureCurrent(trace_id, trace_id_var, nuuid), None)
    /\ UNCHANGED <<args, configVars, stop_event, pc, buffer, elapsed, remaining, calls,
                   console, late, stack>>

\* logger.py:117-122, up to the yield
capture_request_enter(trace_id) ==
    /\ Len(stack) < MaxDepth
    /\ CanEmit
    /\ CanGenerate(trace_id)
    /\ trace_id_var' = EnsureCurrent(trace_id, trace_id_var, nuuid)
    /\ nuuid' = IF EnsureGenerates(trace_id, trace_id_var) THEN nuuid + 1 ELSE nuuid
    /\ stack' = Append(stack, [trace_id |-> EnsureCurrent(trace_id, trace_id_var, nuuid),
                               capture |-> TraceCapture])
    /\ result' = Outcome(None, None)
    /\ UNCHANGED <<args, configVars, exporterVars>>

\* logger.py:23-25
set_response(i, status_code) ==
    /\ i \in 1..Len(stack)
    /\ stack' = [stack EXCEPT ![i].capture.status_code = Some(status_code)]
    /\ result' = Outcome(None, None)
    /\ UNCHANGED <<args, configVars, exporterVars, trace_id_var, nuuid>>

\* logger.py:27-28; touches only the metadata dictionary
add_metadata(i) ==
    /\ i \in 1..Len(stack)
    /\ stack' = stack
    /\ result' = Outcome(None, None)
    /\ UNCHANGED <<args, configVars, exporterVars, trace_id_var, nuuid>>

\* logger.py:30-31
set_error(i, error) ==
    /\ i \in 1..Len(stack)
    /\ stack' = [stack EXCEPT ![i].capture.error = error]
    /\ result' = Outcome(None, None)
    /\ UNCHANGED <<args, configVars, exporterVars, trace_id_var, nuuid>>

\* logger.py:122,126-143: the body of the innermost scope returns
capture_request_return ==
    /\ stack # <<>>
    /\ LET frame == stack[Len(stack)] IN
        capture_request_finally(frame, frame.capture)
    /\ stack' = SubSeq(stack, 1, Len(stack) - 1)
    /\ result' = Outcome(None, None)
    /\ UNCHANGED <<args, configVars, stop_event, pc, buffer, elapsed, remaining, calls,
                   console, late>>

\* logger.py:123-124, what the except clause leaves on the capture
capture_request_except(capture, exc) ==
    IF exc \in Exceptions THEN [capture EXCEPT !.error = exc] ELSE capture

\* faulty variant: the record is built only when the body returns
capture_request_raise_no_record(exc) ==
    /\ stack # <<>>
    /\ stack' = SubSeq(stack, 1, Len(stack) - 1)
    /\ result' = Outcome(None, exc)
    /\ UNCHANGED <<args, configVars, exporterVars, trace_id_var, nuuid>>

\* logger.py:122-143: the body of the innermost scope raises exc
capture_request_raise(exc) ==
    /\ stack # <<>>
    /\ LET frame == stack[Len(stack)] IN
        capture_request_finally(frame, capture_request_except(frame.capture, exc))
    /\ stack' = SubSeq(stack, 1, Len(stack) - 1)
    /\ result' = Outcome(None, exc)
    /\ UNCHANGED <<args, configVars, stop_event, pc, buffer, elapsed, remaining, calls,
                   console, late>>

\* a logger with batch_size 1 whose worker has not run yet
AtRest ==
    /\ batch_size = 1
    /\ flush_interval = 1
    /\ enable_console_fallback = TRUE
    /\ queue = <<>>
    /\ stop_event = FALSE
    /\ pc = "start"
    /\ buffer = <<>>
    /\ elapsed = 0
    /\ remaining = 0
    /\ calls = <<>>
    /\ console = <<>>
    /\ nrec = 0
    /\ late = FALSE
    /\ trace_id_var = None
    /\ stack = <<>>
    /\ result = NoResult
    /\ nuuid = 0

InitCapture ==
    /\ AtRest
    /\ args = NoArgs

NextCapture ==
    \/ \E trace_id \in SuppliedIds : ensure_trace_id(trace_id)
    \/ clear_trace
    \/ \E trace_id \in SuppliedIds, status_code \in LogStatuses,
          error \in LogErrors : call_log_event(trace_id, status_code, error)
    \/ \E trace_id \in SuppliedIds : capture_request_enter(trace_id)
    \/ \E i \in 1..MaxDepth, status_code \in StatusCodes : set_response(i, status_code)
    \/ \E i \in 1..MaxDepth : add_metadata(i)
    \/ \E i \in 1..MaxDepth, error \in Exceptions : set_error(i, error)
    \/ capture_request_return
    \/ \E exc \in Raisable : capture_request_raise(exc)

SpecCapture == InitCapture /\ [][NextCapture]_vars

\* -------------------------------------------------------- capture claims
Closing == Len(stack') < Len(stack)
ClosedFrame == stack[Len(stack)]

\* C7: the exit of a capture_request scope, by return or by failure, closes
\* exactly that scope and puts exactly one record on the queue; opening a
\* scope and set_response, add_metadata and set_error put none.
C7_OneRecordPerScope ==
    [][ /\ Closing =>
              /\ stack' = SubSeq(stack, 1, Len(stack) - 1)
              /\ Len(queue') = Len(queue) + 1
              /\ SubSeq(queue', 1, Len(queue)) = queue
        /\ (stack' # stack /\ ~Closing) => queue' = queue ]_vars

C7_Witness ==
    /\ stack = <<>>
    /\ Len(queue) = 2
    /\ result.exc \in BaseOnly
    /\ queue[1].status_code = 404

\* C8: when the body of a scope unwinds with a failure of any kind, the scope
\* puts one record on the queue, that record carries the failure as its
\* error, and the caller sees the failure.
C8_FailureRecorded ==
    [][ (Closing /\ result'.exc # None) =>
              /\ Len(queue') = Len(queue) + 1
              /\ Last(queue').error = result'.exc ]_vars

\* C9: the record of a closing scope has the status last set on the capture,
\* whatever integer that is; with none set it has 500 if the record carries
\* an error and 200 otherwise.
C9_FinalStatus ==
    [][ Closing =>
            Last(queue').status_code =
                IF ClosedFrame.capture.status_code # NoneOpt
                THEN ClosedFrame.capture.status_code[1]
                ELSE IF Last(queue').error # None THEN 500 ELSE 200 ]_vars

\* C10: the id a scope establishes when it opens is the active id at that
\* moment, it stays with the scope whatever the body does to the active id,
\* and it is the id of the record the scope emits when it closes.
C10_IdFromOpen ==
    [][ /\ Len(stack') > Len(stack) => Last(stack').trace_id = trace_id_var'
        /\ \A i \in 1..Len(stack) :
              i <= Len(stack') => stack'[i].trace_id = stack[i].trace_id
        /\ Closing => Last(queue').trace_id = ClosedFrame.trace_id ]_vars

\* a scope that established the first generated id has closed after the
\* active id was cleared and a second id generated inside it
C10_Witness ==
    /\ stack = <<>>
    /\ nuuid = 2
    /\ Len(queue) = 1
    /\ queue[1].trace_id = Uuid(1)
    /\ trace_id_var = Uuid(1)

\* ------------------------------------------------- correlation store claims
\* the ids uuid4 has handed out so far
Generated == {Uuid(k) : k \in 1..nuuid}

\* C11: of two consecutive ensure_trace_id() calls without a supplied id the
\* second returns what the first returned; the ensure_trace_id() that follows
\* clear_trace() returns an id that is generated by that call and differs
\* from every id generated before.
C11_StableUntilCleared ==
    [][ (IsCall(result', "ensure_trace_id") /\ result'.trace_id = None) =>
          /\ (IsCall(result, "ensure_trace_id") /\ result.trace_id = None)
                => result'.ret = result.ret
          /\ IsCall(result, "clear_trace")
                => /\ nuuid' = nuuid + 1
                   /\ result'.ret = Uuid(nuuid')
                   /\ result'.ret \notin Generated ]_vars

\* ensure_trace_id() has generated a second id after a clear_trace()
C11_Witness ==
    /\ IsCall(result, "ensure_trace_id")
    /\ result.trace_id = None
    /\ result.ret = Uuid(2)
    /\ trace_id_var = Uuid(2)

\* the step ends a call ensure_trace_id(supplied)
EnsureReturns == IsCall(result', "ensure_trace_id")
Supplied == result'.trace_id

\* C12 as stated: ensure_trace_id(supplied) returns the id that is already
\* active if there is one, otherwise the supplied id if one is given, and
\* generates an id only when there is neither; the returned id is the active
\* id afterwards.
C12_ExistingFirst ==
    [][ EnsureReturns =>
          /\ result'.ret = IF trace_id_var \notin {None, ""} THEN trace_id_var
                            ELSE IF Supplied \notin {None, ""} THEN Supplied
                            ELSE Uuid(nuuid + 1)
          /\ trace_id_var' = result'.ret ]_vars

\* C12, amended: ensure_trace_id(supplied) returns the supplied id if a
\* non-empty one is given, otherwise the id that is already active if there
\* is one, and generates an id, once, only when there is neither; the
\* returned id is the active id afterwards.
C12_SuppliedFirst ==
    [][ EnsureReturns =>
          /\ result'.ret = IF Supplied \notin {None, ""} THEN Supplied
                            ELSE IF trace_id_var \notin {None, ""} THEN trace_id_var
                            ELSE Uuid(nuuid + 1)
          /\ nuuid' = IF Supplied \in {None, ""} /\ trace_id_var \in {None, ""}
                       THEN nuuid + 1 ELSE nuuid
          /\ trace_id_var' = result'.ret ]_vars

\* inside a scope that holds a generated id, ensure_trace_id("a") has
\* returned "a" and made it the active id
C12_Witness ==
    /\ IsCall(result, "ensure_trace_id")
    /\ result.trace_id = "a"
    /\ result.ret = "a"
    /\ trace_id_var = "a"
    /\ stack # <<>>
    /\ stack[1].trace_id = Uuid(1)

\* C13: when the outermost capture_request scope of a chain whose id was
\* generated ends, that id stops being the active id, so that a later
\* capture_request or log_event without a supplied id does not carry it.
C13_ClearedAtScopeEnd ==
    [][ (Closing /\ Len(stack) = 1 /\ ClosedFrame.trace_id \in Generated)
            => trace_id_var' # ClosedFrame.trace_id ]_vars

\* -------------------------------------------------------------- redaction
\* A payload value is a scalar, a list of values or a mapping from keys to
\* values; a mapping is a function on the set of its keys.
Scalar(x) == [scalar |-> x]
List(items) == [list |-> items]
Dict(entries) == [dict |-> entries]
IsList(value) == DOMAIN value = {"list"}
IsDict(value) == DOMAIN value = {"dict"}

Redacted == "<<redacted>>"
Keys == {"token", "Token", "user"}             \* the keys of the mappings
RedactKeySets == SUBSET {"TOKEN", "user"}      \* the redact_keys argument
\* str.lower on the strings in use
Lower(key) ==
    CASE key \in {"token", "Token", "TOKEN"} -> "token"
      [] key \in {"user", "User"} -> "user"

\* faulty variant: the redaction keys are compared as they are given
redact_set_as_given(redact_keys) == redact_keys

\* utils.py:20
redact_set(redact_keys) == {Lower(key) : key \in redact_keys}

\* utils.py:22-27
RECURSIVE _redact(_, _)
_redact(value, keys) ==
    IF IsDict(value)
    THEN Dict([k \in DOMAIN value.dict |->
                 _redact(IF Lower(k) \in keys THEN Scalar(Redacted) ELSE value.dict[k],
                         keys)])
    ELSE IF IsList(value)
    THEN List([i \in DOMAIN value.list |-> _redact(value.list[i], keys)])
    ELSE value

\* utils.py:16-29
redact_payload(payload, redact_keys) ==
    IF ~IsDict(payload) THEN payload
    ELSE _redact(payload, redact_set(redact_keys))

\* the number of values in a payload
RECURSIVE Size(_)
RECURSIVE SizeOver(_, _)
Size(value) ==
    IF IsDict(value) THEN 1 + SizeOver(value.dict, DOMAIN value.dict)
    ELSE IF IsList(value) THEN 1 + SizeOver(value.list, DOMAIN value.list)
    ELSE 1
SizeOver(f, D) ==
    IF D = {} THEN 0
    ELSE LET k == CHOOSE k \in D : TRUE IN Size(f[k]) + SizeOver(f, D \ {k})

\* the payloads of at most n values
RECURSIVE Payloads(_)
Payloads(n) ==
    IF n = 0 THEN {}
    ELSE {Scalar("x"), List(<<>>), Dict(<<>>)}
         \cup UNION {{List(items) : items \in {f \in [1..m -> Payloads(n - m)] :
                                                  SizeOver(f, 1..m) < n}}
                     : m \in 1..(n - 1)}
         \cup UNION {{Dict(entries) : entries \in {f \in [D -> Payloads(n - Cardinality(D))] :
                                                      SizeOver(f, D) < n}}
                     : D \in {D \in SUBSET Keys : D # {} /\ Cardinality(D) < n}}

InitRedact ==
    /\ AtRest
    /\ args \in [payload : Payloads(MaxNodes), redact_keys : RedactKeySets]

\* logger.py:91-92, the call redact_payload(payload, config.redact_keys)
call_redact_payload ==
    /\ result = NoResult
    /\ result' = Returned("redact_payload", redact_payload(args.payload, args.redact_keys))
    /\ UNCHANGED <<args, configVars, exporterVars, trace_id_var, stack, nuuid>>

NextRedact == call_redact_payload

SpecRedact == InitRedact /\ [][NextRedact]_vars

\* whether key is one of redact_keys, ignoring case
IsRedactKey(key, redact_keys) == \E r \in redact_keys : Lower(r) = Lower(key)

\* whether out is the value in with the entries of redaction keys replaced
RECURSIVE RedactedFrom(_, _, _)
RedactedFrom(in, out, redact_keys) ==
    IF IsDict(in)
    THEN /\ IsDict(out)
         /\ DOMAIN out.dict = DOMAIN in.dict
         /\ \A k \in DOMAIN in.dict :
               IF IsRedactKey(k, redact_keys)
               THEN out.dict[k] = Scalar(Redacted)
               ELSE RedactedFrom(in.dict[k], out.dict[k], redact_keys)
    ELSE IF IsList(in)
    THEN /\ IsList(out)
         /\ Len(out.list) = Len(in.list)
         /\ \A i \in DOMAIN in.list : RedactedFrom(in.list[i], out.list[i], redact_keys)
    ELSE out = in

\* C16: on a mapping redact_payload returns the input with the value of
\* every entry, at any depth through mappings and lists, whose key is a
\* redaction key ignoring case replaced by "<<redacted>>" and everything else
\* as it was; an input that is not a mapping is returned as it is; redacting
\* the result again changes nothing.
C16_Redact ==
    IsCall(result, "redact_payload") =>
        /\ IsDict(args.payload) => RedactedFrom(args.payload, result.ret, args.redact_keys)
        /\ ~IsDict(args.payload) => result.ret = args.payload
        /\ redact_payload(result.ret, args.redact_keys) = result.ret

\* the key Token, in a mapping in a list in a mapping, is redacted for the
\* redaction key TOKEN
C16_Witness ==
    /\ IsCall(result, "redact_payload")
    /\ args.redact_keys = {"TOKEN"}
    /\ args.payload =
          Dict([k \in {"user"} |-> List(<<Dict([j \in {"Token"} |-> Scalar("x")])>>)])
    /\ result.ret =
          Dict([k \in {"user"} |-> List(<<Dict([j \in {"Token"} |-> Scalar(Redacted)])>>)])

\* ---------------------------------------------------------- configuration
\* An address is the sequence of its characters.
ServiceNames == {"", "svc"}
ApiUrls == {<<>>, <<"h">>, <<"h", "/">>, <<"h", "/", "/">>}
BatchSizes == (0 - 1)..MaxBatch
FlushIntervals == (0 - 1)..MaxInterval        \* in ticks

\* config.py:22
endswith(s, c) == s # <<>> /\ s[Len(s)] = c

\* config.py:17-25; redact_keys is not kept
__post_init__(kwargs) ==
    IF kwargs.batch_size < 1 THEN Raised("TraceLoggerConfig", "ValueError")
    ELSE IF kwargs.flush_interval <= 0 THEN Raised("TraceLoggerConfig", "ValueError")
    ELSE Returned("TraceLoggerConfig",
                  [kwargs EXCEPT !.api_url = IF endswith(kwargs.api_url, "/")
                                             THEN SubSeq(kwargs.api_url, 1, Len(kwargs.api_url) - 1)
                                             ELSE kwargs.api_url])

InitConfig ==
    /\ AtRest
    /\ args \in [service_name : ServiceNames, api_url : ApiUrls,
                  batch_size : BatchSizes, flush_interval : FlushIntervals]

\* config.py:5-25, the call TraceLoggerConfig(**kwargs)
TraceLoggerConfig ==
    /\ result = NoResult
    /\ result' = __post_init__(args)
    /\ UNCHANGED <<args, configVars, exporterVars, trace_id_var, stack, nuuid>>

NextConfig == TraceLoggerConfig

SpecConfig == InitConfig /\ [][NextConfig]_vars

\* C17: the construction raises, and yields no object, when the service name
\* is empty, when batch_size < 1 and when flush_interval <= 0; otherwise it
\* yields the object, whose address is the given one without its trailing
\* slash.
C17_FailFast ==
    IsCall(result, "TraceLoggerConfig") =>
        IF args.service_name = "" \/ args.batch_size < 1 \/ args.flush_interval <= 0
        THEN result.exc = "ValueError"
        ELSE /\ result.exc = None
             /\ result.ret.api_url = IF endswith(args.api_url, "/")
                                      THEN SubSeq(args.api_url, 1, Len(args.api_url) - 1)
                                      ELSE args.api_url

\* ----------------------------------------------------------------- records
Required == {"trace_id", "service", "environment", "timestamp", "direction",
             "route", "method", "status_code", "duration_ms"}
Optional == {"caller_service", "caller_user_id", "caller_ip", "request_payload",
             "response_payload", "metadata", "error_type", "error_message",
             "error_stack", "host_name"}
\* the value a field has when it has one; 0, "" and the empty mapping are
\* values like any other
FieldValue(field) ==
    CASE field \in {"status_code", "duration_ms", "timestamp"} -> 0
      [] field \in {"request_payload", "response_payload", "metadata"} -> Dict(<<>>)
      [] field \in {"error_message", "caller_ip"} -> ""
      [] OTHER -> "x"
\* models.py:5-25, the TraceRecord objects: a required field has a value, an
\* optional one has a value or None
Records ==
    {[field \in Required \cup Optional |->
          IF field \in Required \cup present THEN Some(FieldValue(field)) ELSE NoneOpt]
     : present \in SUBSET Optional}

\* faulty variant: asdict(self) as it is, a None under every absent field
to_payload_asdict(self) ==
    [key \in DOMAIN self |-> IF self[key] = NoneOpt THEN None ELSE self[key][1]]

\* models.py:27-28
to_payload(self) ==
    [key \in {key \in DOMAIN self : self[key] # NoneOpt} |-> self[key][1]]

InitRecord ==
    /\ AtRest
    /\ args \in [self : Records]

\* exporter.py:53,73: the call record.to_payload()
call_to_payload ==
    /\ result = NoResult
    /\ result' = Returned("to_payload", to_payload(args.self))
    /\ UNCHANGED <<args, configVars, exporterVars, trace_id_var, stack, nuuid>>

NextRecord == call_to_payload

SpecRecord == InitRecord /\ [][NextRecord]_vars

\* C18: the keys of the payload are exactly the fields of the record that
\* have a value, each with that value: every required field is a key, and no
\* optional field that is None is.
C18_NoNullKeys ==
    IsCall(result, "to_payload") =>
        /\ DOMAIN result.ret = {field \in Required \cup Optional : args.self[field] # NoneOpt}
        /\ Required \subseteq DOMAIN result.ret
        /\ \A field \in Optional : args.self[field] = NoneOpt => field \notin DOMAIN result.ret
        /\ \A field \in DOMAIN result.ret : Some(result.ret[field]) = args.self[field]

\* a record whose error_message is "" and whose metadata is an empty
\* mapping, with no other optional field: both are keys of the payload
C18_Witness ==
    /\ IsCall(result, "to_payload")
    /\ \A field \in Optional :
          args.self[field] # NoneOpt <=> field \in {"error_message", "metadata"}
    /\ DOMAIN result.ret = Required \cup {"error_message", "metadata"}
    /\ result.ret["error_message"] = ""

====
